---- MODULE Spec2Model ----
(***************************************************************************)
(* A model of the SCD opcode editor (src/main.py, src/table_helpers.py):   *)
(* the stream decoder parse_scd_data, the table of decoded records, the    *)
(* edit handler track_changes with the undo and redo stacks, the row moves *)
(* and the encoder save_scd_file.                                          *)
(*                                                                         *)
(* Texts (cell texts, hex buffers, opcode names, "Opcode Length" strings)  *)
(* are sequences of one-character strings, so that str.replace, str.upper, *)
(* slicing, str.endswith and int() are computed and not assumed.  A file   *)
(* is a sequence of byte values 0..255.  Row numbers are 0-based as in the *)
(* source; row r of the table is rows[r + 1].                              *)
(*                                                                         *)
(* Signals.  main.py:383 connects QTableWidget.itemChanged to              *)
(* track_changes.  QTableWidgetItem.setData (and setText, which is setData *)
(* of the display role) returns at once when the value is unchanged and    *)
(* otherwise stores it and emits itemChanged synchronously, unless         *)
(* blockSignals(True) is in force on the table.  So a setText or a         *)
(* setData(Qt.UserRole) made inside track_changes re-enters track_changes. *)
(* itemChanged for a cell of column 0 or 2 reaches track_changes too, but  *)
(* track_changes returns at once for them (main.py:874), so the model      *)
(* leaves those emissions out.                                             *)
(***************************************************************************)
EXTENDS Integers, Sequences, FiniteSets, TLC

(***************************************************************************)
(* Bounds of the model.                                                    *)
(***************************************************************************)
MaxFileLen == 4
MaxRows == 2
MaxOps == 6
MaxPaste == 1
MaxShortLen == 3
MaxFields == 3
MaxByteIndex == 6

(***************************************************************************)
(* Characters and the string functions of Python the code uses.            *)
(***************************************************************************)
HexDigits == <<"0","1","2","3","4","5","6","7","8","9","A","B","C","D","E","F">>

HexChars == {HexDigits[i] : i \in 1..16}

\* the value Python reports for "no value" (item.data of a role never set)
None == <<"None">>

\* str.upper(), one character
UpperChar(c) ==
  CASE c = "a" -> "A" [] c = "b" -> "B" [] c = "c" -> "C" [] c = "d" -> "D"
    [] c = "e" -> "E" [] c = "f" -> "F" [] c = "g" -> "G" [] OTHER -> c

\* s.upper()
Upper(s) == [i \in 1..Len(s) |-> UpperChar(s[i])]

\* s.replace(" ", "")
StripSpaces(s) == SelectSeq(s, LAMBDA c : c # " ")

\* s[a:b] for 0 <= a, with Python's clipping at the end of s
Slice(s, a, b) ==
  LET hi == IF b < Len(s) THEN b ELSE Len(s)
  IN  IF a >= hi THEN <<>> ELSE [i \in 1..(hi - a) |-> s[a + i]]

\* all(c in '0123456789ABCDEF' for c in s)
AllHex(s) == \A i \in 1..Len(s) : s[i] \in HexChars

\* " ".join(s[i:i+2] for i in range(0, len(s), 2))
RECURSIVE Grouped(_)
Grouped(s) ==
  IF Len(s) <= 2 THEN s
  ELSE Slice(s, 0, 2) \o <<" ">> \o Grouped(Slice(s, 2, Len(s)))

\* the value of one hexadecimal digit, either case; -1 when c is none
HexVal(c) ==
  LET u == UpperChar(c)
  IN  IF u \in HexChars THEN (CHOOSE i \in 1..16 : HexDigits[i] = u) - 1 ELSE -1

\* int(two_chars, 16) for a slice of file hex
Int16(s) == 16 * HexVal(s[1]) + HexVal(s[2])

\* bytes.hex().upper(): two upper-case digits per byte
RECURSIVE BytesToHex(_)
BytesToHex(bs) ==
  IF bs = <<>> THEN <<>>
  ELSE <<HexDigits[(bs[1] \div 16) + 1], HexDigits[(bs[1] % 16) + 1]>>
         \o BytesToHex(Tail(bs))

\* what bytes.fromhex raises ValueError on: an odd number of digits or a
\* character that is no hexadecimal digit (s holds no space here)
FromHexFails(s) == Len(s) % 2 = 1 \/ \E i \in 1..Len(s) : HexVal(s[i]) = -1

\* bytes.fromhex(s) when it does not raise: one byte per pair of digits
FromHex(s) ==
  [i \in 1..(Len(s) \div 2) |-> 16 * HexVal(s[2 * i - 1]) + HexVal(s[2 * i])]

\* name.endswith("_4p")
EndsWith4p(name) ==
  Len(name) >= 3 /\ Slice(name, Len(name) - 3, Len(name)) = <<"_","4","p">>

\* the decimal digits int() accepts
DecDigits == {"0","1","2","3","4","5","6","7","8","9"}

\* s.split()[0]: the first run of non-blank characters; <<>> when there is
\* none (where Python raises IndexError)
RECURSIVE FirstToken(_)
FirstToken(s) ==
  IF s = <<>> THEN <<>>
  ELSE IF s[1] = " " THEN FirstToken(Tail(s))
  ELSE LET ends == {i \in 1..Len(s) : s[i] = " "}
       IN  IF ends = {} THEN s
           ELSE Slice(s, 0, (CHOOSE i \in ends : \A j \in ends : i <= j) - 1)

\* int(tok) for a token of decimal digits
RECURSIVE DecValue(_)
DecValue(tok) ==
  IF tok = <<>> THEN 0
  ELSE 10 * DecValue(Slice(tok, 0, Len(tok) - 1)) + HexVal(tok[Len(tok)])

\* int(info["Opcode Length"].split()[0]); -1 stands for the ValueError or
\* IndexError the code catches
OpcodeLength(info) ==
  LET tok == FirstToken(info.len)
  IN  IF tok # <<>> /\ \A i \in 1..Len(tok) : tok[i] \in DecDigits
      THEN DecValue(tok) ELSE -1

(***************************************************************************)
(* The opcode definition sources.  The json files of the four games are    *)
(* read by load_opcode_data and are no part of the code; the model lets a  *)
(* game's file hold any of the sources below, or be missing or malformed.  *)
(* An entry is one item of the json object, in the order of the file.      *)
(***************************************************************************)
Entry(k, n, nm, l, d) == [key |-> k, num |-> n, name |-> nm, len |-> l, desc |-> d]

N_Nop == <<"N","o","p">>
N_Aot == <<"A","o","t">>
N_Aot4p == <<"A","o","t","_","4","p">>
N_Bad == <<"B","a","d">>
N_Unknown == <<"U","n","k","n","o","w","n">>

E_Nop == Entry("nop", <<"0","1">>, N_Nop, <<"2"," ","b","y","t","e","s">>, "d_nop")
E_Aot == Entry("aot", <<"2","C">>, N_Aot, <<"3"," ","b","y","t","e","s">>, "d_aot")
E_Aot4p == Entry("aot_4p", <<"2","C">>, N_Aot4p, <<"4"," ","b","y","t","e","s">>, "d_aot_4p")
E_Bad == Entry("bad", <<"0","3">>, N_Bad, <<"x"," ","b","y","t","e","s">>, "d_bad")
E_NoNumber == Entry("nonum", <<>>, N_Bad, <<"1"," ","b","y","t","e","s">>, "d_nonum")

SrcBaseFirst == <<E_Nop, E_Aot, E_Aot4p, E_NoNumber>>
Src4pFirst == <<E_Aot4p, E_Aot, E_Nop, E_Bad>>
Src4pOnly == <<E_Nop, E_Aot4p>>
SrcBaseOnly == <<E_Aot, E_Nop, E_Bad>>

AllSources == {SrcBaseFirst, Src4pFirst, Src4pOnly, SrcBaseOnly}
EditSources == {SrcBaseFirst}

\* the items of the game dropdown: index 0 is "Select Game"
GameNames == <<"Select Game", "Resident Evil 1.5", "Resident Evil 2">>
GameIndexes == 0..(Len(GameNames) - 1)

\* dropdown.currentText()
GameText(idx) == GameNames[idx + 1]

\* the empty dict
EmptyDict == <<>>

\* parse_opcodes_as_dict: entries grouped by "Opcode Number" in the order of
\* the source; an entry without a number is skipped
parse_opcodes_as_dict(src) ==
  LET nums == {src[i].num : i \in 1..Len(src)} \ {<<>>}
  IN  [n \in nums |-> SelectSeq(src, LAMBDA e : e.num = n)]

\* what load_opcode_data may return for a game: the parsed content of its
\* file, or {} when the file is missing or malformed
LoadResults(sources) == {parse_opcodes_as_dict(s) : s \in sources} \cup {EmptyDict}

(***************************************************************************)
(* The files load_scd_file may be given.                                   *)
(***************************************************************************)
\* the bytes of a file: the opcodes 01, 03 and 2C of the definitions, and
\* 31 and 32, the two sides of the SAT comparison, which no definition names
FileBytes == {1, 3, 44, 49, 50}

RECURSIVE SeqsUpTo(_, _)
SeqsUpTo(S, n) ==
  IF n = 0 THEN {<<>>}
  ELSE LET shorter == SeqsUpTo(S, n - 1)
       IN  shorter \cup {Append(s, x) : s \in {t \in shorter : Len(t) = n - 1}, x \in S}

\* two longer files: a record of two bytes, then the opcode 2C with three
\* bytes after it, the last of them on either side of the SAT comparison
LongFiles == {<<1, 1, 44, 1, 1, 49>>, <<1, 1, 44, 1, 1, 50>>}

AllFiles == SeqsUpTo(FileBytes, MaxFileLen) \cup LongFiles

\* the files of the specification of the decoder as it runs
ShortFiles == SeqsUpTo(FileBytes, MaxShortLen) \cup LongFiles

\* the files of the specification of the whole editor: two records that
\* differ, one record, and one record chosen by the selector byte
EditFiles == {<<1, 1, 1, 44>>, <<44, 1, 1, 50>>}

(***************************************************************************)
(* State.                                                                  *)
(***************************************************************************)
VARIABLES
  dropdown,             \* self.dropdown.currentIndex()
  current_opcodes,      \* self.current_opcodes
  rows,                 \* self.table_widget: one record per row
  original_hex_values,  \* self.original_hex_values: row number -> text
  undo_stack,           \* self.undo_stack
  redo_stack,           \* self.redo_stack
  signals_blocked,      \* self.table_widget.signalsBlocked()
  pc,                   \* "idle", or the place of a running load_scd_file
  hex_data,             \* parse_scd_data: hex_data
  position,             \* parse_scd_data: position
  unknown_opcodes,      \* parse_scd_data: unknown_opcodes
  file_bytes,           \* the bytes of the file the table was decoded from
  written,              \* what the handler that just ran wrote or showed
  hist,                 \* the last operations (history, for the claims)
  ops,                  \* how many operations the user has started
  byte_info,            \* eventFilter: byte_info, the fields of a definition
  byte_index            \* eventFilter: byte_index, the byte under the mouse

vars == <<dropdown, current_opcodes, rows, original_hex_values, undo_stack,
          redo_stack, signals_blocked, pc, hex_data, position,
          unknown_opcodes, file_bytes, written, hist, ops, byte_info,
          byte_index>>

\* a row of the table: the texts of its three cells, the Qt.UserRole data of
\* the hex cell, and, for the claims only, the identity of the record and
\* the hex text it was created with
Row(nm, hx, ds, ident) ==
  [name |-> nm, hex |-> hx, user |-> None, desc |-> ds, id |-> ident, orig |-> hx]

NoWrite == [kind |-> "none", data |-> <<>>]

\* an operation of the history: its name, the row it was given, whether it
\* was accepted (for an edit: the text passed the validation), the hex of
\* the rows before it and the normalised text (both for an edit only)
Op(o, r, a, old, new) == [op |-> o, row |-> r, acc |-> a, old |-> old, new |-> new]

\* the history after operation o: o, and before it the operation it
\* followed when the pair is one the claims speak of (an edit or a save
\* right after a decode, an undo right after an edit, a redo right after an
\* undo, a move right after an edit, an undo right after a move)
Edits == {"edit", "paste"}
Moves == {"move_up", "move_down"}

Follows(o, p) ==
  \/ o.op \in Edits \cup {"save"} /\ p.op = "decoded"
  \/ o.op = "undo" /\ p.op \in Edits
  \/ o.op = "redo" /\ p.op = "undo"
  \/ o.op \in Moves /\ p.op \in Edits
  \/ o.op = "undo" /\ p.op \in Moves

Past(o) ==
  IF hist # <<>> /\ Follows(o, hist[1]) THEN <<o>> \o hist ELSE <<o>>

Init ==
  /\ dropdown = 0
  /\ current_opcodes = EmptyDict
  /\ rows = <<>>
  /\ original_hex_values = EmptyDict
  /\ undo_stack = <<>>
  /\ redo_stack = <<>>
  /\ signals_blocked = FALSE
  /\ pc = "idle"
  /\ hex_data = <<>>
  /\ position = 0
  /\ unknown_opcodes = <<>>
  /\ file_bytes = <<>>
  /\ written = NoWrite
  /\ hist = <<>>
  /\ ops = 0
  /\ byte_info = <<>>
  /\ byte_index = 0

\* dict.get(row, "")
OriginalGet(row) ==
  IF row \in DOMAIN original_hex_values THEN original_hex_values[row] ELSE <<>>

\* the hex text of a row without its separators: what has_unsaved_changes
\* compares and save_scd_file encodes
CurrentHex(rw) == StripSpaces(rw.hex)

\* the name and the description every row shows, in the order of the table
NamesOf(rs) == [i \in 1..Len(rs) |-> <<rs[i].name, rs[i].desc>>]

\* the hex of every row, in the order of the table
HexOf(rs) == [i \in 1..Len(rs) |-> CurrentHex(rs[i])]

\* has_unsaved_changes()
has_unsaved_changes ==
  \E r \in 0..(Len(rows) - 1) :
    StripSpaces(rows[r + 1].hex) # StripSpaces(OriginalGet(r))

(***************************************************************************)
(* The table and its itemChanged signal.  A world w holds what an edit     *)
(* handler changes: the rows and the two stacks.                           *)
(***************************************************************************)
World(rs, un, re) == [rows |-> rs, undo |-> un, redo |-> re]

\* track_changes writing the name and the description it derives into every
\* row (a wrong row at lines 907-930)
UpdateEveryOpcodeCell(w, row, hex) ==
  IF Len(hex) >= 2
  THEN LET first_two_bytes == Slice(hex, 0, 2)
           named(nm, ds) ==
             [w EXCEPT !.rows = [i \in DOMAIN w.rows |->
                                   [w.rows[i] EXCEPT !.name = nm, !.desc = ds]]]
       IN  IF first_two_bytes \in DOMAIN current_opcodes
           THEN named(current_opcodes[first_two_bytes][1].name,
                      current_opcodes[first_two_bytes][1].desc)
           ELSE named(N_Unknown, "")
  ELSE w

\* track_changes, lines 896-930: the name and description cells follow the
\* first two characters of the value, by the first definition of that number
UpdateOpcodeCells(w, row, hex) ==
  IF Len(hex) >= 2
  THEN LET first_two_bytes == Slice(hex, 0, 2)
       IN  IF first_two_bytes \in DOMAIN current_opcodes
           THEN LET selected_opcode_info == current_opcodes[first_two_bytes][1]
                IN  [w EXCEPT !.rows[row + 1].name = selected_opcode_info.name,
                              !.rows[row + 1].desc = selected_opcode_info.desc]
           ELSE [w EXCEPT !.rows[row + 1].name = N_Unknown,
                          !.rows[row + 1].desc = ""]
  ELSE w

RECURSIVE track_changes(_, _)

\* the slot of itemChanged for a hex cell (main.py:383): nothing while the
\* signals of the table are blocked
ItemChanged(w, row) == IF signals_blocked THEN w ELSE track_changes(w, row)

\* item.setText(text) on the hex cell of a row
SetItemText(w, row, text) ==
  IF w.rows[row + 1].hex = text THEN w
  ELSE ItemChanged([w EXCEPT !.rows[row + 1].hex = text], row)

\* item.setData(Qt.UserRole, value) on the hex cell of a row
SetUserRole(w, row, value) ==
  IF w.rows[row + 1].user = value THEN w
  ELSE ItemChanged([w EXCEPT !.rows[row + 1].user = value], row)

\* prev_value = item.data(Qt.UserRole), or the original value of the row
\* number when there is none
PrevValue(w, row) ==
  IF w.rows[row + 1].user = None
  THEN Upper(StripSpaces(OriginalGet(row)))
  ELSE w.rows[row + 1].user

\* track_changes(item) for the hex cell of a row
track_changes(w, row) ==
  LET current_value == Upper(StripSpaces(w.rows[row + 1].hex))
      prev_value == PrevValue(w, row)
  IN  IF ~AllHex(current_value)
      THEN SetItemText(w, row, prev_value)
      ELSE LET pushed == [w EXCEPT !.undo = Append(@, <<row, 1, prev_value>>),
                                   !.redo = <<>>]
               stored == SetUserRole(pushed, row, current_value)
           IN  UpdateOpcodeCells(stored, row, current_value)

Here == World(rows, undo_stack, redo_stack)

\* the handler left the world w
Becomes(w) ==
  /\ rows' = w.rows
  /\ undo_stack' = w.undo
  /\ redo_stack' = w.redo

RowNumbers == 0..(Len(rows) - 1)

(***************************************************************************)
(* Editing.                                                                *)
(***************************************************************************)
\* what the user may type into the cell editor or hold in the clipboard
T_abcd == <<"a","b"," ","c","d">>
T_gg == <<"g","g">>
T_012C == <<"0","1","2","C">>
T_odd == <<"c">>
InputTexts == {T_abcd, T_gg, T_012C, T_odd}

\* HexDataDelegate.setModelData: the cell editor of the hex cell of a row is
\* closed with `typed` in it
setModelData(row, typed) ==
  LET text == Upper(StripSpaces(typed))
  IN  /\ pc = "idle" /\ ops < MaxOps
      /\ row \in RowNumbers
      /\ IF AllHex(text)
         THEN Becomes(SetItemText(Here, row, Grouped(text)))
         ELSE UNCHANGED <<rows, undo_stack, redo_stack>>
      /\ written' = NoWrite
      /\ ops' = ops + 1
      /\ hist' = Past(Op("edit", row, AllHex(text), HexOf(rows), text))
      /\ UNCHANGED <<dropdown, current_opcodes, original_hex_values,
                     signals_blocked, pc, hex_data, position, unknown_opcodes,
                     file_bytes,
                     byte_info, byte_index>>

\* the loop of paste_hex_data over zip(current_items, paste_data): cells are
\* <<row, column>> in the order of the selection
RECURSIVE PasteLoop(_, _, _)
PasteLoop(w, cells, lines) ==
  IF cells = <<>> \/ lines = <<>> THEN w
  ELSE LET row == cells[1][1]
           next == IF cells[1][2] = 1
                   THEN track_changes(SetItemText(w, row, lines[1]), row)
                   ELSE w
       IN  PasteLoop(next, Tail(cells), Tail(lines))

\* the selections paste_hex_data may find: up to MaxPaste different cells of
\* the name and hex columns
Selections ==
  {c \in SeqsUpTo(RowNumbers \X {0, 1}, MaxPaste) :
     c # <<>> /\ \A i, j \in 1..Len(c) : i # j => c[i] # c[j]}

\* paste_hex_data with the clipboard text split into `lines`
paste_hex_data(cells, lines) ==
  LET row == cells[1][1]
      single == Len(cells) = 1 /\ cells[1][2] = 1
      text == Upper(StripSpaces(lines[1]))
  IN  /\ pc = "idle" /\ ops < MaxOps
      /\ Becomes(PasteLoop(Here, cells, lines))
      /\ written' = NoWrite
      /\ ops' = ops + 1
      /\ hist' = Past(IF single
                      THEN Op("paste", row, AllHex(text), HexOf(rows), text)
                      ELSE Op("pastes", 0, FALSE, <<>>, <<>>))
      /\ UNCHANGED <<dropdown, current_opcodes, original_hex_values,
                     signals_blocked, pc, hex_data, position, unknown_opcodes,
                     file_bytes,
                     byte_info, byte_index>>

\* undo_hex_data and redo_hex_data share their body: pop `from`, push the
\* text of the cell on `to`, set the popped value, call track_changes.
\* item(row, col) is None for a row the table no longer has, and
\* current_item.text() then raises: the handler dies with the entry popped.
Last(s) == s[Len(s)]
Front(s) == SubSeq(s, 1, Len(s) - 1)

\* undo_hex_data without the check of line 1019: with nothing to undo it
\* still leaves an entry on the redo stack
undo_hex_data_unchecked ==
  /\ pc = "idle" /\ ops < MaxOps
  /\ IF undo_stack = <<>>
     THEN /\ redo_stack' = Append(redo_stack, <<0, 1, <<>>>>)
          /\ UNCHANGED <<rows, undo_stack, pc>>
     ELSE LET row == Last(undo_stack)[1]
              prev_value == Last(undo_stack)[3]
          IN  IF row \notin RowNumbers
              THEN /\ undo_stack' = Front(undo_stack)
                   /\ pc' = "crashed"
                   /\ UNCHANGED <<rows, redo_stack>>
              ELSE LET popped == World(rows, Front(undo_stack),
                                       Append(redo_stack, <<row, 1, rows[row + 1].hex>>))
                   IN  /\ Becomes(track_changes(SetItemText(popped, row, prev_value), row))
                       /\ UNCHANGED pc
  /\ written' = NoWrite
  /\ ops' = ops + 1
  /\ hist' = Past(Op("undo", 0, undo_stack # <<>>, <<>>, <<>>))
  /\ UNCHANGED <<dropdown, current_opcodes, original_hex_values,
                 signals_blocked, hex_data, position, unknown_opcodes, file_bytes,
                 byte_info, byte_index>>

\* undo_hex_data, lines 1017-1028
undo_hex_data ==
  /\ pc = "idle" /\ ops < MaxOps
  /\ IF undo_stack = <<>>
     THEN UNCHANGED <<rows, undo_stack, redo_stack, pc>>
     ELSE LET row == Last(undo_stack)[1]
              prev_value == Last(undo_stack)[3]
          IN  IF row \notin RowNumbers
              THEN /\ undo_stack' = Front(undo_stack)
                   /\ pc' = "crashed"
                   /\ UNCHANGED <<rows, redo_stack>>
              ELSE LET popped == World(rows, Front(undo_stack),
                                       Append(redo_stack, <<row, 1, rows[row + 1].hex>>))
                   IN  /\ Becomes(track_changes(SetItemText(popped, row, prev_value), row))
                       /\ UNCHANGED pc
  /\ written' = NoWrite
  /\ ops' = ops + 1
  /\ hist' = Past(Op("undo", 0, undo_stack # <<>>, <<>>, <<>>))
  /\ UNCHANGED <<dropdown, current_opcodes, original_hex_values,
                 signals_blocked, hex_data, position, unknown_opcodes, file_bytes,
                 byte_info, byte_index>>

redo_hex_data ==
  /\ pc = "idle" /\ ops < MaxOps
  /\ IF redo_stack = <<>>
     THEN UNCHANGED <<rows, undo_stack, redo_stack, pc>>
     ELSE LET row == Last(redo_stack)[1]
              prev_value == Last(redo_stack)[3]
          IN  IF row \notin RowNumbers
              THEN /\ redo_stack' = Front(redo_stack)
                   /\ pc' = "crashed"
                   /\ UNCHANGED <<rows, undo_stack>>
              ELSE LET popped == World(rows,
                                       Append(undo_stack, <<row, 1, rows[row + 1].hex>>),
                                       Front(redo_stack))
                   IN  /\ Becomes(track_changes(SetItemText(popped, row, prev_value), row))
                       /\ UNCHANGED pc
  /\ written' = NoWrite
  /\ ops' = ops + 1
  /\ hist' = Past(Op("redo", 0, redo_stack # <<>>, <<>>, <<>>))
  /\ UNCHANGED <<dropdown, current_opcodes, original_hex_values,
                 signals_blocked, hex_data, position, unknown_opcodes, file_bytes,
                 byte_info, byte_index>>

(***************************************************************************)
(* Rows: moving and adding.                                                *)
(***************************************************************************)
\* rows a and b after a swap that puts the items of row a into row b and
\* leaves row a as it was (a missing setItem at lines 21 and 49)
SwappedOneWay(rs, a, b) ==
  [i \in 1..Len(rs) |-> IF i = b + 1 THEN rs[a + 1] ELSE rs[i]]

\* the rows with rows a and b (0-based) exchanged: takeItem and setItem move
\* the three items of a row, with their data, and leave
\* original_hex_values alone
Swapped(rs, a, b) ==
  [i \in 1..Len(rs) |-> IF i = a + 1 THEN rs[b + 1]
                        ELSE IF i = b + 1 THEN rs[a + 1] ELSE rs[i]]

\* move_row_up with `selected` the row of the first selected item: signals
\* are blocked for the swap and unblocked in the finally clause
move_row_up(selected) ==
  /\ pc = "idle" /\ ops < MaxOps
  /\ selected \in RowNumbers
  /\ IF selected = 0
     THEN UNCHANGED <<rows, signals_blocked>>
     ELSE /\ rows' = Swapped(rows, selected, selected - 1)
          /\ signals_blocked' = FALSE
  /\ written' = NoWrite
  /\ ops' = ops + 1
  /\ hist' = Past(Op("move_up", selected, selected # 0, <<>>, <<>>))
  /\ UNCHANGED <<dropdown, current_opcodes, original_hex_values, undo_stack,
                 redo_stack, pc, hex_data, position, unknown_opcodes, file_bytes,
                 byte_info, byte_index>>

move_row_down(selected) ==
  /\ pc = "idle" /\ ops < MaxOps
  /\ selected \in RowNumbers
  /\ IF selected = Len(rows) - 1
     THEN UNCHANGED <<rows, signals_blocked>>
     ELSE /\ rows' = Swapped(rows, selected, selected + 1)
          /\ signals_blocked' = FALSE
  /\ written' = NoWrite
  /\ ops' = ops + 1
  /\ hist' = Past(Op("move_down", selected, selected # Len(rows) - 1, <<>>, <<>>))
  /\ UNCHANGED <<dropdown, current_opcodes, original_hex_values, undo_stack,
                 redo_stack, pc, hex_data, position, unknown_opcodes, file_bytes,
                 byte_info, byte_index>>

\* an identity no row of the table has
FreshId == IF rows = <<>> THEN 1
           ELSE 1 + (CHOOSE m \in {rows[i].id : i \in 1..Len(rows)} :
                       \A i \in 1..Len(rows) : rows[i].id <= m)

\* add_row: a row of three empty items at the end; setItem of the hex item
\* emits itemChanged
add_row ==
  /\ pc = "idle" /\ ops < MaxOps
  /\ Len(rows) < MaxRows
  /\ Becomes(ItemChanged(World(Append(rows, Row(<<>>, <<>>, "", FreshId)),
                               undo_stack, redo_stack),
                         Len(rows)))
  /\ written' = NoWrite
  /\ ops' = ops + 1
  /\ hist' = Past(Op("add_row", Len(rows), TRUE, <<>>, <<>>))
  /\ UNCHANGED <<dropdown, current_opcodes, original_hex_values,
                 signals_blocked, pc, hex_data, position, unknown_opcodes,
                 file_bytes,
                 byte_info, byte_index>>

(***************************************************************************)
(* Encoding.                                                               *)
(***************************************************************************)
\* the texts of the hex cells joined from the last row to the first (a wrong
\* range at line 1284)
RECURSIVE JoinedHexBackwards(_)
JoinedHexBackwards(rs) ==
  IF rs = <<>> THEN <<>>
  ELSE JoinedHexBackwards(Tail(rs)) \o StripSpaces(rs[1].hex)

\* save_scd_file, lines 1283-1287: the texts of the hex cells, spaces
\* removed, in the order of the rows
RECURSIVE JoinedHex(_)
JoinedHex(rs) ==
  IF rs = <<>> THEN <<>> ELSE StripSpaces(rs[1].hex) \o JoinedHex(Tail(rs))

\* what save_scd_file writes: nothing when the dialog is cancelled, the bytes
\* of the joined hex, or an error message when bytes.fromhex raises
SaveOutcome(accepted) ==
  IF ~accepted THEN NoWrite
  ELSE IF FromHexFails(JoinedHex(rows)) THEN [kind |-> "error", data |-> <<>>]
  ELSE [kind |-> "file", data |-> FromHex(JoinedHex(rows))]

save_scd_file(accepted) ==
  /\ pc = "idle" /\ ops < MaxOps
  /\ written' = SaveOutcome(accepted)
  /\ ops' = ops + 1
  /\ hist' = Past(Op("save", 0, accepted, <<>>, <<>>))
  /\ UNCHANGED <<dropdown, current_opcodes, rows, original_hex_values,
                 undo_stack, redo_stack, signals_blocked, pc, hex_data,
                 position, unknown_opcodes, file_bytes,
                 byte_info, byte_index>>

(***************************************************************************)
(* Selecting a game.                                                       *)
(***************************************************************************)
\* game_selected, run by currentIndexChanged with the new index already in
\* the dropdown.  `reply` answers the unsaved-changes dialog, `accepted` the
\* file dialog of the save it may start, `loaded` is what load_opcode_data
\* returns.  On Cancel, setCurrentIndex(0) changes the index again and so
\* runs game_selected once more, which empties current_opcodes.
game_selected(idx, reply, accepted, loaded) ==
  /\ pc = "idle" /\ ops < MaxOps
  /\ idx \in GameIndexes /\ idx # dropdown
  /\ IF idx = 0
     THEN /\ dropdown' = 0
          /\ current_opcodes' = EmptyDict
          /\ written' = NoWrite
          /\ UNCHANGED <<rows, original_hex_values>>
     ELSE IF has_unsaved_changes /\ reply = "Cancel"
     THEN /\ dropdown' = 0
          /\ current_opcodes' = EmptyDict
          /\ written' = NoWrite
          /\ UNCHANGED <<rows, original_hex_values>>
     ELSE /\ dropdown' = idx
          /\ written' = IF has_unsaved_changes /\ reply = "Yes"
                        THEN SaveOutcome(accepted) ELSE NoWrite
          /\ rows' = <<>>
          /\ original_hex_values' = EmptyDict
          /\ current_opcodes' = loaded
  /\ ops' = ops + 1
  /\ hist' = Past(Op("game", idx, ~(idx # 0 /\ has_unsaved_changes /\ reply = "Cancel"),
                     <<>>, <<>>))
  /\ UNCHANGED <<undo_stack, redo_stack, signals_blocked, pc, hex_data,
                 position, unknown_opcodes, file_bytes,
                 byte_info, byte_index>>

(***************************************************************************)
(* Loading and decoding.                                                   *)
(***************************************************************************)
\* load_scd_file with a parse_scd_data that does not empty the table first
\* (line 668 left out): the records of the file come after the rows that
\* were there
load_scd_file_keeps_rows(file) ==
  /\ pc = "idle" /\ ops < MaxOps
  /\ dropdown # 0
  /\ signals_blocked' = TRUE
  /\ file_bytes' = file
  /\ hex_data' = BytesToHex(file)
  /\ rows' = rows
  /\ original_hex_values' = EmptyDict
  /\ position' = 0
  /\ unknown_opcodes' = <<>>
  /\ pc' = "parse"
  /\ written' = NoWrite
  /\ ops' = ops + 1
  /\ hist' = Past(Op("load_scd_file", 0, TRUE, <<>>, <<>>))
  /\ UNCHANGED <<dropdown, current_opcodes, undo_stack, redo_stack,
                 byte_info, byte_index>>

\* load_scd_file when the file is read: signals are blocked, the bytes
\* become upper-case hex, and parse_scd_data starts by emptying the table
\* and original_hex_values
load_scd_file(file) ==
  /\ pc = "idle" /\ ops < MaxOps
  /\ dropdown # 0
  /\ signals_blocked' = TRUE
  /\ file_bytes' = file
  /\ hex_data' = BytesToHex(file)
  /\ rows' = <<>>
  /\ original_hex_values' = EmptyDict
  /\ position' = 0
  /\ unknown_opcodes' = <<>>
  /\ pc' = "parse"
  /\ written' = NoWrite
  /\ ops' = ops + 1
  /\ hist' = Past(Op("load_scd_file", 0, TRUE, <<>>, <<>>))
  /\ UNCHANGED <<dropdown, current_opcodes, undo_stack, redo_stack,
                 byte_info, byte_index>>

\* load_scd_file when open() or read() raises: the handler returns from the
\* except clause with the signals of the table still blocked
load_scd_file_fails ==
  /\ pc = "idle" /\ ops < MaxOps
  /\ dropdown # 0
  /\ signals_blocked' = TRUE
  /\ written' = NoWrite
  /\ ops' = ops + 1
  /\ hist' = Past(Op("load_scd_file", 0, FALSE, <<>>, <<>>))
  /\ UNCHANGED <<dropdown, current_opcodes, rows, original_hex_values,
                 undo_stack, redo_stack, pc, hex_data, position,
                 unknown_opcodes, file_bytes,
                 byte_info, byte_index>>

\* the opcodes parse_scd_data chooses by the SAT byte
SpecialOpcodes == {<<"2","C">>, <<"3","B">>, <<"5","0">>}

\* selected_opcode_info = None
NoInfo == Entry("None", <<>>, <<>>, <<>>, "")

\* the first entry of the wanted kind, and the first entry of the list when
\* there is none (a fallback in place of the break of line 715)
FirstWhereOrFirst(list, with_4p) ==
  LET hits == {i \in 1..Len(list) : EndsWith4p(list[i].name) = with_4p}
  IN  IF hits = {} THEN list[1]
      ELSE list[CHOOSE i \in hits : \A j \in hits : i <= j]

\* the first entry of a list whose name ends with "_4p" (with_4p) or does
\* not (otherwise), or None
FirstWhere(list, with_4p) ==
  LET hits == {i \in 1..Len(list) : EndsWith4p(list[i].name) = with_4p}
  IN  IF hits = {} THEN NoInfo
      ELSE list[CHOOSE i \in hits : \A j \in hits : i <= j]

\* the choice by the SAT byte with 0x31 on the "_4p" side (a wrong
\* comparison at line 701)
SelectBySatInclusive(list, sat_value) == FirstWhere(list, sat_value >= 49)

\* lines 700-712: the first "_4p" entry when the SAT byte exceeds 0x31, the
\* first entry without "_4p" otherwise
SelectBySat(list, sat_value) == FirstWhere(list, sat_value > 49)

\* is the opcode at the position one of the special ones of Resident Evil 1.5
IsSpecial(opcode_hex) ==
  GameText(dropdown) = "Resident Evil 1.5" /\ Upper(opcode_hex) \in SpecialOpcodes

\* the selection without the check of line 691: a SAT byte that is not
\* there counts as 0
SelectedUnchecked(opcode_hex) ==
  LET list == current_opcodes[opcode_hex]
  IN  IF IsSpecial(opcode_hex)
      THEN SelectBySat(list, IF position + 8 > Len(hex_data) THEN 0
                             ELSE Int16(Slice(hex_data, position + 6, position + 8)))
      ELSE list[1]

\* the selection with the last entry of the list as the default (a wrong
\* index at line 733)
SelectedLast(opcode_hex) ==
  LET list == current_opcodes[opcode_hex]
  IN  IF IsSpecial(opcode_hex)
      THEN IF position + 8 > Len(hex_data) THEN NoInfo
           ELSE SelectBySat(list, Int16(Slice(hex_data, position + 6, position + 8)))
      ELSE list[Len(list)]

\* the definition the loop selects at the position, or NoInfo when it breaks
\* before or while selecting (lines 688-715, 733)
Selected(opcode_hex) ==
  LET list == current_opcodes[opcode_hex]
  IN  IF IsSpecial(opcode_hex)
      THEN IF position + 8 > Len(hex_data) THEN NoInfo
           ELSE SelectBySat(list, Int16(Slice(hex_data, position + 6, position + 8)))
      ELSE list[1]

\* the length of the next record counted in bytes where hex characters are
\* meant (a missing factor at lines 724 and 742)
TotalLengthInBytes(info) == OpcodeLength(info)

\* the hex characters the next record takes
TotalLengthInHex(info) == OpcodeLength(info) * 2

\* the breaks without the checks of lines 727 and 745
BreaksLax(opcode_hex) ==
  LET info == Selected(opcode_hex)
  IN  info = NoInfo \/ OpcodeLength(info) = -1

\* the loop breaks: nothing selected, a length that is no number, or a
\* record that runs past the end of the data
Breaks(opcode_hex) ==
  LET info == Selected(opcode_hex)
  IN  \/ info = NoInfo
      \/ OpcodeLength(info) = -1
      \/ position + TotalLengthInHex(info) > Len(hex_data)

\* the row of a record that lost its last byte (a wrong slice at line 749)
EmittedShort(info) ==
  LET opcode_full_hex ==
        Upper(Slice(hex_data, position, position + TotalLengthInHex(info) - 2))
  IN  Row(info.name, Grouped(opcode_full_hex), info.desc, Len(rows) + 1)

\* the row of the record at the position
Emitted(info) ==
  LET opcode_full_hex == Upper(Slice(hex_data, position, position + TotalLengthInHex(info)))
  IN  Row(info.name, Grouped(opcode_full_hex), info.desc, Len(rows) + 1)

\* the position after a skip of two bytes (a wrong step at line 778)
AfterUnknownFar == position + 4

\* the position after a skip that does not advance (a missing step at line
\* 778)
AfterUnknownStuck == position

\* the position after a skip of half a byte (a wrong step at line 778)
AfterUnknownHalf == position + 1

\* the position after an opcode no definition names (line 778)
AfterUnknown == position + 2

\* one turn of the while loop of parse_scd_data
parse_step ==
  /\ pc = "parse"
  /\ position < Len(hex_data)
  /\ LET opcode_hex == Slice(hex_data, position, position + 2)
     IN  IF opcode_hex \in DOMAIN current_opcodes
         THEN IF Breaks(opcode_hex)
              THEN /\ pc' = "break"
                   /\ UNCHANGED <<rows, original_hex_values, position, unknown_opcodes>>
              ELSE LET info == Selected(opcode_hex)
                   IN  /\ rows' = Append(rows, Emitted(info))
                       /\ original_hex_values' =
                            [r \in DOMAIN original_hex_values \cup {Len(rows)} |->
                               IF r = Len(rows) THEN Emitted(info).hex
                               ELSE original_hex_values[r]]
                       /\ position' = position + TotalLengthInHex(info)
                       /\ UNCHANGED <<pc, unknown_opcodes>>
         ELSE /\ unknown_opcodes' = Append(unknown_opcodes, <<opcode_hex, position>>)
              /\ position' = AfterUnknown
              /\ UNCHANGED <<pc, rows, original_hex_values>>
  /\ UNCHANGED <<dropdown, current_opcodes, undo_stack, redo_stack,
                 signals_blocked, hex_data, file_bytes, written, hist, ops,
                 byte_info, byte_index>>

\* a message shown only when the loop ended at the end of the data
UnknownMessageAtEnd ==
  IF pc = "parse" /\ unknown_opcodes # <<>>
  THEN [kind |-> "message", data |-> unknown_opcodes]
  ELSE NoWrite

\* what parse_scd_data shows after the loop (lines 780-784): the unknown
\* opcodes and their positions when there are some, nothing otherwise
UnknownMessage ==
  IF unknown_opcodes # <<>>
  THEN [kind |-> "message", data |-> unknown_opcodes]
  ELSE NoWrite

\* the loop is over: the unknown opcodes are shown, parse_scd_data returns
\* and load_scd_file unblocks the signals
parse_finish ==
  /\ \/ pc = "parse" /\ position >= Len(hex_data)
     \/ pc = "break"
  /\ pc' = "idle"
  /\ signals_blocked' = FALSE
  /\ UNCHANGED ops
  /\ hist' = Past(Op("decoded", 0, pc = "parse", <<>>, NamesOf(rows)))
  /\ written' = UnknownMessage
  /\ UNCHANGED <<dropdown, current_opcodes, rows, original_hex_values,
                 undo_stack, redo_stack, hex_data, position, unknown_opcodes,
                 file_bytes,
                 byte_info, byte_index>>

\* parse_scd_data as a function of what it reads: the hex of the buffer, the
\* definitions, the text of the dropdown and the position it starts at.  It
\* gives the rows it appends, as name, hex text and description, and the
\* unknown opcodes it collects
RECURSIVE parse_scd_data(_, _, _, _)
parse_scd_data(hex, opcodes, game, pos) ==
  IF pos >= Len(hex) THEN [rows |-> <<>>, unknown_opcodes |-> <<>>]
  ELSE
    LET opcode_hex == Slice(hex, pos, pos + 2)
    IN  IF opcode_hex \in DOMAIN opcodes
        THEN LET opcode_info_list == opcodes[opcode_hex]
                 selected_opcode_info ==
                   IF game = "Resident Evil 1.5" /\ Upper(opcode_hex) \in SpecialOpcodes
                   THEN IF pos + 8 > Len(hex) THEN NoInfo
                        ELSE SelectBySat(opcode_info_list,
                                         Int16(Slice(hex, pos + 6, pos + 8)))
                   ELSE opcode_info_list[1]
                 opcode_length ==
                   IF selected_opcode_info = NoInfo THEN -1
                   ELSE OpcodeLength(selected_opcode_info)
                 total_length_in_hex == opcode_length * 2
             IN  IF opcode_length = -1 \/ pos + total_length_in_hex > Len(hex)
                 THEN [rows |-> <<>>, unknown_opcodes |-> <<>>]
                 ELSE LET rest == parse_scd_data(hex, opcodes, game,
                                                 pos + total_length_in_hex)
                          grouped_hex ==
                            Grouped(Upper(Slice(hex, pos, pos + total_length_in_hex)))
                      IN  [rows |-> <<<<selected_opcode_info.name, grouped_hex,
                                       selected_opcode_info.desc>>>> \o rest.rows,
                           unknown_opcodes |-> rest.unknown_opcodes]
        ELSE LET rest == parse_scd_data(hex, opcodes, game, pos + 2)
             IN  [rows |-> rest.rows,
                  unknown_opcodes |-> <<<<opcode_hex, pos>>>> \o rest.unknown_opcodes]

(***************************************************************************)
(* The fields of a definition.  The "Bytes" object of a definition names   *)
(* its fields in the order of the json file; get_byte_info finds the field *)
(* a byte belongs to.                                                      *)
(***************************************************************************)
\* the "Type" of a field: "" stands for a field without the key
FieldTypes == {"UCHAR", "CHAR", "USHORT", "ULONG", ""}

\* a field without the "Description" key
NoKey == "(no key)"

\* the "Description" of a field
FieldDescriptions == {"d_field", NoKey}

\* the names of the fields, which as the keys of a json object differ
FieldNames == <<"f1", "f2", "f3", "f4">>

\* the "Bytes" objects of n fields: the k-th field has the k-th name
ByteInfos(n) ==
  [1..n -> [type : FieldTypes, desc : FieldDescriptions]]

AllByteInfos == UNION {ByteInfos(n) : n \in 0..MaxFields}

\* get_byte_info without the step from the index to the position (a missing
\* "+ 1" at line 852)
RECURSIVE FieldLoop(_, _, _, _)
get_byte_info_from_index(info, index) == FieldLoop(info, 1, 0, index)

\* details.get("Description", "No description available")
DescriptionGet(details) ==
  IF details.desc = NoKey THEN "No description available" ELSE details.desc

\* the bytes of a field with four of them for "ULONG" and "LONG" (a width
\* by the name of the type at line 858)
ByteLengthLong(details) ==
  IF details.type \in {"UCHAR", "CHAR"} THEN 1
  ELSE IF details.type \in {"ULONG", "LONG"} THEN 4 ELSE 2

\* line 858: the bytes a field takes
ByteLength(details) == IF details.type \in {"UCHAR", "CHAR"} THEN 1 ELSE 2

\* the for loop of get_byte_info from the k-th field on, with
\* current_byte_count bytes taken by the fields before it
FieldLoop(info, k, current_byte_count, byte_position) ==
  IF k > Len(info) THEN <<"Unknown", "No description available">>
  ELSE LET byte_length == ByteLength(info[k])
           byte_range == (current_byte_count + 1)..(current_byte_count + byte_length)
       IN  IF byte_position \in byte_range
           THEN <<FieldNames[k], DescriptionGet(info[k])>>
           ELSE FieldLoop(info, k + 1, current_byte_count + byte_length,
                          byte_position)

\* get_byte_info(byte_info, byte_index): the name and the description of the
\* field the byte is in
get_byte_info(info, index) == FieldLoop(info, 1, 0, index + 1)

\* eventFilter, lines 841-845: the tooltip names the field of the byte
show_tooltip ==
  /\ written = NoWrite
  /\ written' = [kind |-> "tooltip", data |-> get_byte_info(byte_info, byte_index)]
  /\ UNCHANGED <<dropdown, current_opcodes, rows, original_hex_values,
                 undo_stack, redo_stack, signals_blocked, pc, hex_data,
                 position, unknown_opcodes, file_bytes, hist, ops, byte_info,
                 byte_index>>

\* get_byte_info applied to a "Bytes" object and to a byte index
InitFields ==
  /\ byte_info \in AllByteInfos
  /\ byte_index \in 0..MaxByteIndex
  /\ dropdown = 0
  /\ current_opcodes = EmptyDict
  /\ rows = <<>>
  /\ original_hex_values = EmptyDict
  /\ undo_stack = <<>>
  /\ redo_stack = <<>>
  /\ signals_blocked = FALSE
  /\ pc = "idle"
  /\ hex_data = <<>>
  /\ position = 0
  /\ unknown_opcodes = <<>>
  /\ file_bytes = <<>>
  /\ written = NoWrite
  /\ hist = <<>>
  /\ ops = 0

NextFields == show_tooltip

SpecFields == InitFields /\ [][NextFields]_vars

(***************************************************************************)
(* The editor.                                                             *)
(***************************************************************************)
Replies == {"Yes", "No", "Cancel"}

Next ==
  \/ \E idx \in GameIndexes, reply \in Replies, accepted \in BOOLEAN,
        loaded \in LoadResults(EditSources) :
       game_selected(idx, reply, accepted, loaded)
  \/ \E file \in EditFiles : load_scd_file(file)
  \/ load_scd_file_fails
  \/ parse_step
  \/ parse_finish
  \/ \E row \in RowNumbers, typed \in InputTexts : setModelData(row, typed)
  \/ \E cells \in Selections, lines \in SeqsUpTo(InputTexts, MaxPaste) \ {<<>>} :
       paste_hex_data(cells, lines)
  \/ undo_hex_data
  \/ redo_hex_data
  \/ \E selected \in RowNumbers : move_row_up(selected)
  \/ \E selected \in RowNumbers : move_row_down(selected)
  \/ add_row
  \/ \E accepted \in BOOLEAN : save_scd_file(accepted)

Spec == Init /\ [][Next]_vars

(***************************************************************************)
(* The decoder and the encoder alone: decoding is a function of the game,  *)
(* the definitions and the file, so these are drawn at the start, a game   *)
(* being selected and its definitions loaded, over every file of up to     *)
(* MaxFileLen bytes and every definition source; the file is then loaded   *)
(* and saved.                                                              *)
(***************************************************************************)
InitDecode ==
  /\ dropdown \in GameIndexes \ {0}
  /\ current_opcodes \in LoadResults(AllSources)
  /\ file_bytes \in AllFiles
  /\ rows = <<>>
  /\ original_hex_values = EmptyDict
  /\ undo_stack = <<>>
  /\ redo_stack = <<>>
  /\ signals_blocked = FALSE
  /\ pc = "idle"
  /\ hex_data = <<>>
  /\ position = 0
  /\ unknown_opcodes = <<>>
  /\ written = NoWrite
  /\ hist = <<>>
  /\ ops = 0
  /\ byte_info = <<>>
  /\ byte_index = 0

NextDecode ==
  \/ load_scd_file(file_bytes)
  \/ parse_step
  \/ parse_finish
  \/ save_scd_file(TRUE)

SpecDecode == InitDecode /\ [][NextDecode]_vars

\* the loop of parse_scd_data has a turn to take (line 680): this is when
\* parse_step can happen, and each parse_step changes pc or the position
LoopRuns == pc = "parse" /\ position < Len(hex_data)

\* weak fairness of parse_step, WF_vars(parse_step), written out with
\* LoopRuns for ENABLED <<parse_step>>_vars
FairLoop == []<>(~LoopRuns) \/ []<><<parse_step>>_vars

\* the decoder before a short file is loaded
InitShort == InitDecode /\ file_bytes \in ShortFiles

\* the decoder as it runs: load_scd_file calls parse_scd_data, whose loop
\* goes on turn after turn until its condition fails or it breaks, and then
\* returns
SpecDecodeFair ==
  /\ InitShort
  /\ [][NextDecode]_vars
  /\ FairLoop /\ WF_vars(parse_finish)

(***************************************************************************)
(* The claims.                                                             *)
(***************************************************************************)
\* the step is operation o of the user
Did(o) == ops' = ops + 1 /\ hist'[1].op = o

\* the state is the one operation o left
After(o) == hist # <<>> /\ hist[1].op = o

\* the last operations were, latest first, the ones named in `names`
AfterAll(names) ==
  /\ Len(hist) >= Len(names)
  /\ \A i \in 1..Len(names) : hist[i].op \in names[i]

\* C1: a file decoded to its end with no unknown opcode and saved right away
\* is written back byte for byte
C1_RoundTrip ==
  (AfterAll(<<{"save"}, {"decoded"}>>) /\ hist[2].acc /\ unknown_opcodes = <<>>)
    => written = [kind |-> "file", data |-> file_bytes]

\* C1: such a save of a file of two records or more has happened
C1_Witness ==
  /\ AfterAll(<<{"save"}, {"decoded"}>>) /\ hist[2].acc /\ unknown_opcodes = <<>>
  /\ Len(rows) >= 2
  /\ written.kind = "file"

\* C2: undo right after an accepted edit leaves every record's current_hex
\* as it was just before the edit
C2_UndoRestoresEdit ==
  (AfterAll(<<{"undo"}, Edits>>) /\ hist[2].acc) => HexOf(rows) = hist[2].old

\* C3: after an accepted edit, undo and redo in a row the record holds the
\* edited value again
C3_RedoReappliesEdit ==
  (AfterAll(<<{"redo"}, {"undo"}, Edits>>) /\ hist[3].acc /\ pc = "idle")
    => CurrentHex(rows[hist[3].row + 1]) = hist[3].new

\* C4: an accepted edit of row i pushes exactly one undo entry, (i, the
\* current_hex of row i just before), and leaves the redo stack empty
C4_EditPushesOneEntry ==
  [][(\E o \in Edits : Did(o)) /\ hist'[1].acc
       => /\ Len(undo_stack') = Len(undo_stack) + 1
          /\ SubSeq(undo_stack', 1, Len(undo_stack)) = undo_stack
          /\ Last(undo_stack')[1] = hist'[1].row
          /\ Last(undo_stack')[3] = CurrentHex(rows[hist'[1].row + 1])
          /\ redo_stack' = <<>>]_vars

\* C5: undo moves exactly the top entry of the undo stack to the redo stack,
\* as (row, the value of the row just before), and redo does the reverse;
\* the other entries of both stacks stay
C5_UndoRedoTransfer ==
  [][/\ (Did("undo") /\ undo_stack # <<>>)
          => /\ undo_stack' = Front(undo_stack)
             /\ Len(redo_stack') = Len(redo_stack) + 1
             /\ Front(redo_stack') = redo_stack
             /\ Last(redo_stack')[1] = Last(undo_stack)[1]
             /\ StripSpaces(Last(redo_stack')[3])
                  = CurrentHex(rows[Last(undo_stack)[1] + 1])
     /\ (Did("redo") /\ redo_stack # <<>>)
          => /\ redo_stack' = Front(redo_stack)
             /\ Len(undo_stack') = Len(undo_stack) + 1
             /\ Front(undo_stack') = undo_stack
             /\ Last(undo_stack')[1] = Last(redo_stack)[1]
             /\ StripSpaces(Last(undo_stack')[3])
                  = CurrentHex(rows[Last(redo_stack)[1] + 1])]_vars

\* C6: both stacks are empty right after a file is decoded and right after a
\* game is selected
C6_StacksResetOnReplacement ==
  (After("decoded") \/ (After("game") /\ hist[1].acc /\ hist[1].row # 0))
    => undo_stack = <<>> /\ redo_stack = <<>>

\* C7: an edit whose normalised text is no hex is rejected: the rows (hex,
\* name, description) and both stacks are as before
C7_InvalidEditRejected ==
  [][(\E o \in Edits : Did(o)) /\ ~hist'[1].acc
       => /\ HexOf(rows') = HexOf(rows)
          /\ \A i \in 1..Len(rows) : /\ rows'[i].name = rows[i].name
                                     /\ rows'[i].desc = rows[i].desc
          /\ undo_stack' = undo_stack
          /\ redo_stack' = redo_stack]_vars

\* C8: right after an accepted edit, by the cell editor or by paste, the
\* current_hex of the row is the text without separators, in upper case
C8_EditStoresNormalised ==
  ((After("edit") \/ After("paste")) /\ hist[1].acc)
    => CurrentHex(rows[hist[1].row + 1]) = hist[1].new

\* the record of a row differs from the hex it was created with
Differs(rw) == CurrentHex(rw) # StripSpaces(rw.orig)

\* C9: has_unsaved_changes() is true exactly when some record's current_hex
\* differs from that record's own original_hex
C9_UnsavedIffSomeRecordDiffers ==
  pc = "idle" => (has_unsaved_changes <=> \E i \in 1..Len(rows) : Differs(rows[i]))

\* C10: has_unsaved_changes() is false right after a decode, true after one
\* accepted edit that follows (of a new value), and false again after the
\* undo of that edit
C10_UnsavedAcrossEditUndo ==
  /\ After("decoded") => ~has_unsaved_changes
  /\ (AfterAll(<<Edits, {"decoded"}>>) /\ hist[1].acc
        /\ hist[1].new # hist[1].old[hist[1].row + 1])
       => has_unsaved_changes
  /\ (AfterAll(<<{"undo"}, Edits, {"decoded"}>>) /\ hist[2].acc)
       => ~has_unsaved_changes

\* the decoder is about to read the opcode at the position
Decoding == pc = "parse" /\ position < Len(hex_data)

\* the two hex characters at the position
AtOpcode == Slice(hex_data, position, position + 2)

\* the opcode at the position is one the game disambiguates
Disambiguated ==
  GameText(dropdown) = "Resident Evil 1.5" /\ AtOpcode \in SpecialOpcodes

\* the bytes of the file that follow the opcode byte at the position
PayloadAfter == Len(file_bytes) - (position \div 2) - 1

\* once the loop has stopped nothing more is decoded or skipped
StoppedForGood ==
  pc = "break" => /\ pc' = "idle"
                  /\ rows' = rows
                  /\ position' = position
                  /\ unknown_opcodes' = unknown_opcodes

\* the turn of the loop stops the decoding and emits and skips nothing
StopsHere ==
  /\ pc' = "break"
  /\ rows' = rows
  /\ original_hex_values' = original_hex_values
  /\ position' = position
  /\ unknown_opcodes' = unknown_opcodes

\* C11: an opcode without a definition gives no record, one entry (opcode,
\* position) at the end of the unknown opcodes and a step of one byte (two
\* hex characters), and the decoding goes on
C11_UnknownSkipped ==
  [][(Decoding /\ AtOpcode \notin DOMAIN current_opcodes)
       => /\ rows' = rows
          /\ unknown_opcodes' = Append(unknown_opcodes, <<AtOpcode, position>>)
          /\ position' = position + 2
          /\ pc' = "parse"]_vars

\* C11: a file that starts with an unknown opcode was decoded to its end,
\* with a record after the unknown opcode
C11_Witness ==
  /\ After("decoded") /\ hist[1].acc
  /\ unknown_opcodes # <<>> /\ unknown_opcodes[1][2] = 0
  /\ rows # <<>>

\* C12: a record of a disambiguated opcode of Resident Evil 1.5 has the
\* "_4p" definition exactly when the byte at offset 3 exceeds 0x31
C12_SelectsBySat ==
  [][(Decoding /\ Disambiguated /\ Len(rows') = Len(rows) + 1)
       => (EndsWith4p(Last(rows').name)
             <=> file_bytes[(position \div 2) + 4] > 49)]_vars

\* C12: opcode 2C with 0x31 at offset 3 gave the base definition although
\* the "_4p" definition comes first in the registry
C12_Witness ==
  /\ After("decoded") /\ GameText(dropdown) = "Resident Evil 1.5"
  /\ Len(file_bytes) = 4 /\ file_bytes[1] = 44 /\ file_bytes[4] = 49
  /\ rows # <<>> /\ rows[1].name = N_Aot
  /\ current_opcodes[<<"2","C">>][1].name = N_Aot4p

\* C13 (as stated): with fewer than 4 bytes after a disambiguated opcode
\* the decoding stops there for good
C13_StopsBelowFourPayloadBytes ==
  [][/\ (Decoding /\ AtOpcode \in DOMAIN current_opcodes /\ Disambiguated
           /\ PayloadAfter < 4) => StopsHere
     /\ StoppedForGood]_vars

\* C13 (amended): with fewer than 3 bytes after a disambiguated opcode, so
\* that the byte at offset 3 is missing, the decoding stops there for good
C13_StopsWithoutSelectorByte ==
  [][/\ (Decoding /\ AtOpcode \in DOMAIN current_opcodes /\ Disambiguated
           /\ PayloadAfter < 3) => StopsHere
     /\ StoppedForGood]_vars

\* C13: the decoding stopped at a disambiguated opcode with fewer than 3
\* bytes after it, after a first record
C13_Witness ==
  /\ pc = "break" /\ AtOpcode \in DOMAIN current_opcodes /\ Disambiguated
  /\ PayloadAfter < 3
  /\ rows # <<>>

\* C14: a definition whose length runs past the end of the data stops the
\* decoding for good; nothing is emitted or skipped and the rows stay
C14_TruncationStops ==
  [][/\ (Decoding /\ AtOpcode \in DOMAIN current_opcodes
           /\ Selected(AtOpcode) # NoInfo
           /\ OpcodeLength(Selected(AtOpcode)) # -1
           /\ position + 2 * OpcodeLength(Selected(AtOpcode)) > Len(hex_data))
          => StopsHere
     /\ StoppedForGood]_vars

\* C14: the decoding stopped at a record that runs past the end of the
\* data, after a first record
C14_Witness ==
  /\ pc = "break" /\ AtOpcode \in DOMAIN current_opcodes
  /\ Selected(AtOpcode) # NoInfo /\ OpcodeLength(Selected(AtOpcode)) # -1
  /\ position + 2 * OpcodeLength(Selected(AtOpcode)) > Len(hex_data)
  /\ rows # <<>>

\* C15: a decoding that stopped before the end of the data shows a
\* diagnostic
C15_TruncationReported ==
  (After("decoded") /\ ~hist[1].acc) => written # NoWrite

\* C16: the unknown opcodes grow at their end only, in the order of their
\* positions, and after the decoding, however it ended, all of them are
\* shown in that order
C16_UnknownsReported ==
  /\ [](/\ \A i, j \in 1..Len(unknown_opcodes) :
             i < j => unknown_opcodes[i][2] < unknown_opcodes[j][2]
        /\ (After("decoded") /\ unknown_opcodes # <<>>)
             => written = [kind |-> "message", data |-> unknown_opcodes])
  /\ [][(pc \in {"parse", "break"})
          => (/\ Len(unknown_opcodes') >= Len(unknown_opcodes)
              /\ SubSeq(unknown_opcodes', 1, Len(unknown_opcodes))
                   = unknown_opcodes)]_vars

\* C16: a decoding that stopped early shows the two unknown opcodes it met
C16_Witness ==
  /\ After("decoded") /\ ~hist[1].acc
  /\ Len(unknown_opcodes) >= 2
  /\ written = [kind |-> "message", data |-> unknown_opcodes]

\* the first definition of a source with an opcode number
FirstInSource(src, number) ==
  src[CHOOSE i \in 1..Len(src) :
        /\ src[i].num = number
        /\ \A j \in 1..(i - 1) : src[j].num # number]

\* C17: the record of an opcode that is not disambiguated has the name,
\* description and length of the first definition of that number in the
\* definition source, whatever the byte at offset 3
C17_FirstDefinitionIsDefault ==
  [][(Decoding /\ ~Disambiguated /\ Len(rows') = Len(rows) + 1)
       => \A src \in AllSources :
            parse_opcodes_as_dict(src) = current_opcodes
              => LET first == FirstInSource(src, AtOpcode)
                 IN  /\ Last(rows').name = first.name
                     /\ Last(rows').desc = first.desc
                     /\ position' = position + 2 * OpcodeLength(first)]_vars

\* C17: in Resident Evil 2 opcode 2C with 0x01 at offset 3 gave the "_4p"
\* definition, the first of the source
C17_Witness ==
  /\ After("decoded") /\ GameText(dropdown) = "Resident Evil 2"
  /\ Len(file_bytes) = 4 /\ file_bytes[1] = 44 /\ file_bytes[4] = 1
  /\ current_opcodes = parse_opcodes_as_dict(Src4pFirst)
  /\ rows # <<>> /\ rows[1].name = N_Aot4p

\* the name and description that follow from a value: those of the first
\* definition of its first byte, "Unknown" and nothing when there is none
DerivedFrom(hex) ==
  IF Len(hex) >= 2 /\ Slice(hex, 0, 2) \in DOMAIN current_opcodes
  THEN <<current_opcodes[Slice(hex, 0, 2)][1].name,
         current_opcodes[Slice(hex, 0, 2)][1].desc>>
  ELSE <<N_Unknown, "">>

\* C18: an accepted edit, an undo or a redo that changes the value of a row
\* leaves the row with the name and description that follow from the new
\* value
C18_DerivedFollowsValue ==
  [][\A r \in RowNumbers :
       (/\ Did("edit") \/ Did("paste") \/ Did("undo") \/ Did("redo")
        /\ hist'[1].acc
        /\ Len(rows') = Len(rows)
        /\ CurrentHex(rows'[r + 1]) # CurrentHex(rows[r + 1]))
         => <<rows'[r + 1].name, rows'[r + 1].desc>>
              = DerivedFrom(Upper(CurrentHex(rows'[r + 1])))]_vars

\* an upper-case hex string of whole bytes
WholeBytes(hex) == Len(hex) % 2 = 0 /\ AllHex(hex)

\* C19: the value of every row and the value it was created with are
\* upper-case hex strings of whole bytes and equally long
C19_WholeBytesOfEqualLength ==
  \A i \in 1..Len(rows) :
    /\ WholeBytes(CurrentHex(rows[i]))
    /\ WholeBytes(StripSpaces(rows[i].orig))
    /\ Len(CurrentHex(rows[i])) = Len(StripSpaces(rows[i].orig))

\* C20: the values of the rows, joined in the order of the table, are hex
\* digits of whole bytes, and no save ends with an error
C20_EncodeNeverFails ==
  /\ ~FromHexFails(JoinedHex(rows))
  /\ written.kind # "error"

\* the hex digits of the first n records of the document, in its order, with
\* the separators left out
RECURSIVE HexUpTo(_)
HexUpTo(n) ==
  IF n = 0 THEN <<>>
  ELSE HexUpTo(n - 1) \o SelectSeq(CurrentHex(rows[n]), LAMBDA ch : ch # " ")

\* C21: a save that writes a file writes exactly the bytes whose hex digits
\* are the current_hex of every record in the order of the document, the
\* separators left out and nothing added, and it leaves the records, their
\* original values and both stacks as they were
C21_EncodeConcatenates ==
  [][(Did("save") /\ written'.kind = "file")
       => (/\ BytesToHex(written'.data) = Upper(HexUpTo(Len(rows)))
           /\ Len(written'.data) * 2 = Len(HexUpTo(Len(rows)))
           /\ UNCHANGED <<rows, original_hex_values, undo_stack, redo_stack>>)]_vars

\* C21: a file of two records or more was written after a move had changed
\* the order of the records
C21_Witness ==
  /\ After("save") /\ written.kind = "file" /\ written.data # <<>>
  /\ Len(rows) >= 2
  /\ rows[1].id > rows[2].id
  /\ rows[1].hex # rows[2].hex

\* C22: a move only reorders: every record, followed by its identity, has
\* after the move the current_hex and the original_hex it had before it
C22_MoveKeepsValues ==
  [][(Did("move_up") \/ Did("move_down"))
       => (\A i \in 1..Len(rows) : \A j \in 1..Len(rows') :
             (rows'[j].id = rows[i].id)
               => (/\ CurrentHex(rows'[j]) = CurrentHex(rows[i])
                   /\ OriginalGet(j - 1)' = OriginalGet(i - 1)))]_vars

\* C24: while the registry is empty no buffer is walked: the decoder's
\* position stays at the start and no byte is reported as an unknown opcode
C24_EmptyRegistryNotDecoded ==
  (current_opcodes = EmptyDict) => (position = 0 /\ unknown_opcodes = <<>>)

\* the turn of the loop appends a record
Emits == pc = "parse" /\ Len(rows') = Len(rows) + 1

\* C27: a record emitted at position p comes from a definition of the opcode
\* at p; with L the length that definition declares, its current_hex and its
\* original_hex are the upper-case hex of the L bytes of the buffer from p
\* on, and the next opcode is read at p + 2L
C27_RecordIsSlice ==
  [][Emits
       => (\E i \in 1..Len(current_opcodes[AtOpcode]) :
             LET def == current_opcodes[AtOpcode][i]
                 L == OpcodeLength(def)
                 first == position \div 2
                 slice == BytesToHex(SubSeq(file_bytes, first + 1, first + L))
             IN  /\ Last(rows').name = def.name
                 /\ L >= 1 /\ first + L <= Len(file_bytes)
                 /\ CurrentHex(Last(rows')) = slice
                 /\ StripSpaces(original_hex_values'[Len(rows)]) = slice
                 /\ Front(rows') = rows
                 /\ position' = position + 2 * L)]_vars

\* C27: two records of different bytes were emitted and the position is the
\* end of the second one
C27_Witness ==
  /\ pc = "parse" /\ Len(rows) = 2 /\ position = 2 * Len(file_bytes)
  /\ rows[1].hex # rows[2].hex
  /\ OriginalGet(1) = rows[2].hex

\* the selector byte: the byte of the file at offset 3 from the opcode at the
\* position
SelectorByte == file_bytes[(position \div 2) + 4]

\* the definitions of the opcode at the position have none of the kind the
\* selector byte asks for ("_4p" above 0x31, not "_4p" otherwise)
NoWantedVariant ==
  \A i \in 1..Len(current_opcodes[AtOpcode]) :
    EndsWith4p(current_opcodes[AtOpcode][i].name) # (SelectorByte > 49)

\* C29: when the opcode at the position is disambiguated, its selector byte
\* is there and no definition of the wanted kind exists, the decoding stops
\* there for good: no record is emitted, nothing is skipped and the records
\* emitted before stay
C29_NoVariantStops ==
  [][/\ (Decoding /\ AtOpcode \in DOMAIN current_opcodes /\ Disambiguated
           /\ PayloadAfter >= 3 /\ NoWantedVariant) => StopsHere
     /\ StoppedForGood]_vars

\* C29: the decoding stopped after a first record at a disambiguated opcode
\* that has its selector byte and no definition of the wanted kind
C29_Witness ==
  /\ pc = "break" /\ AtOpcode \in DOMAIN current_opcodes /\ Disambiguated
  /\ PayloadAfter >= 3 /\ NoWantedVariant
  /\ Len(rows) = 1 /\ position = 4

\* C26: an undo with an empty undo stack and a redo with an empty redo stack
\* change nothing: the records, their original values and both stacks are
\* after it what they were before
C26_EmptyStackNoOp ==
  [][((Did("undo") /\ undo_stack = <<>>) \/ (Did("redo") /\ redo_stack = <<>>))
       => UNCHANGED <<rows, original_hex_values, undo_stack, redo_stack,
                      signals_blocked, pc>>]_vars

\* C26: an undo found its stack empty in a document of two records
C26_Witness ==
  /\ After("undo") /\ ~hist[1].acc
  /\ undo_stack = <<>>
  /\ Len(rows) = 2

\* C30: after an accepted edit of a record of a freshly decoded document and
\* an undo, the record shows the name and the description the decoder gave
\* it, a "_4p" definition chosen by the selector byte included
C30_UndoRestoresName ==
  (AfterAll(<<{"undo"}, Edits, {"decoded"}>>) /\ hist[2].acc /\ pc = "idle")
    => NamesOf(rows)[hist[2].row + 1] = hist[3].new[hist[2].row + 1]

\* C28: the decoding of a buffer ends: every turn of the loop that does not
\* stop it moves the position forward and never past the end of the buffer,
\* the loop is left without a stop only with the position at the end of the
\* buffer, and a decoding that has begun returns
C28_DecodingTerminates ==
  /\ [][/\ (pc = "parse" /\ pc' = "parse")
            => (position < position' /\ position' <= Len(hex_data))
        /\ (pc = "parse" /\ pc' = "idle") => (position = Len(hex_data))]_vars
  /\ (pc = "parse") ~> (pc = "idle")

\* C28: a decoding that emitted a record and skipped an unknown opcode has
\* ended at the end of the buffer
C28_Witness ==
  /\ After("decoded") /\ hist[1].acc /\ pc = "idle"
  /\ position = Len(hex_data)
  /\ rows # <<>> /\ unknown_opcodes # <<>>

\* the bytes the fields before the k-th one take
RECURSIVE Consumed(_)
Consumed(k) ==
  IF k = 1 THEN 0
  ELSE Consumed(k - 1) + (IF byte_info[k - 1].type \in {"UCHAR", "CHAR"} THEN 1 ELSE 2)

\* the fields whose bytes, counted from 0, hold the byte index
FieldsAt ==
  {k \in 1..Len(byte_info) : Consumed(k) <= byte_index /\ byte_index < Consumed(k + 1)}

\* C23: the field resolved for a byte index counted from 0 is the one field
\* f with consumed(f) <= index < consumed(f) + width(f), and past the bytes
\* of all fields it is the unknown-field sentinel
C23_ResolvesByRange ==
  (written.kind = "tooltip")
    => (/\ Cardinality(FieldsAt) <= 1
        /\ \A k \in FieldsAt :
             written.data =
               <<FieldNames[k],
                 IF byte_info[k].desc = NoKey THEN "No description available"
                 ELSE byte_info[k].desc>>
        /\ (FieldsAt = {}) =>
             (/\ byte_index >= Consumed(Len(byte_info) + 1)
              /\ written.data = <<"Unknown", "No description available">>))

\* C23: the byte of index 3 was resolved to the third field, after a field of
\* one byte and a field of two
C23_Witness ==
  /\ written.kind = "tooltip"
  /\ Len(byte_info) = 3 /\ byte_index = 3
  /\ byte_info[1].type = "CHAR" /\ byte_info[2].type = "USHORT"
  /\ written.data[1] = FieldNames[3]

\* C25: what a decoding leaves is a function of the buffer, the registry and
\* the game alone: whatever records, edits and stack entries earlier
\* operations left, the rows, their original values and the unknown opcodes
\* after a decoding are the ones parse_scd_data gives for these three
C25_DecodeDeterministic ==
  After("decoded")
    => LET result == parse_scd_data(BytesToHex(file_bytes), current_opcodes,
                                    GameText(dropdown), 0)
       IN  /\ [i \in 1..Len(rows) |-> <<rows[i].name, rows[i].hex, rows[i].desc>>]
               = result.rows
           /\ \A i \in 1..Len(rows) :
                OriginalGet(i - 1) = rows[i].hex /\ rows[i].user = None
           /\ DOMAIN original_hex_values = 0..(Len(rows) - 1)
           /\ unknown_opcodes = result.unknown_opcodes

\* C25: a file was decoded into a record while the undo stack held entries
\* of edits made to an earlier document
C25_Witness ==
  /\ After("decoded") /\ hist[1].acc
  /\ undo_stack # <<>>
  /\ rows # <<>>

\* C31: the tooltip never gives a declared field for byte 0 of a record, the
\* opcode number, and gives for byte k >= 1 the field of payload offset k - 1
C31_OpcodeByteNotAField ==
  (written.kind = "tooltip")
    => (IF byte_index = 0
        THEN written.data = <<"Unknown", "No description available">>
        ELSE written.data = get_byte_info(byte_info, byte_index - 1))

\* C32: a field takes one byte exactly when its type is UCHAR or CHAR and two
\* bytes with every other type, ULONG and a missing type included: byte 1 is
\* in the first field exactly when that field's type is neither UCHAR nor
\* CHAR, and byte 2 never is
C32_WidthByType ==
  (written.kind = "tooltip" /\ Len(byte_info) >= 1)
    => (/\ (byte_index = 0) => (written.data[1] = FieldNames[1])
        /\ (byte_index = 1) =>
             ((written.data[1] = FieldNames[1])
                <=> (byte_info[1].type \notin {"UCHAR", "CHAR"}))
        /\ (byte_index >= 2) => (written.data[1] # FieldNames[1]))

\* C32: byte 2 after a first field of type ULONG was found in the second
\* field
C32_Witness ==
  /\ written.kind = "tooltip"
  /\ Len(byte_info) >= 2 /\ byte_info[1].type = "ULONG"
  /\ byte_index = 2
  /\ written.data[1] = FieldNames[2]

\* the records rs and the unknown opcodes us, each in its order, tile the
\* buffer from the offset `at` up to the position: at every offset stands
\* the next unknown opcode, when its position says so, or the next record
RECURSIVE Tiles(_, _, _)
Tiles(rs, us, at) ==
  IF rs = <<>> /\ us = <<>> THEN at = position
  ELSE IF us # <<>> /\ us[1][2] = at
       THEN /\ Slice(hex_data, at, at + 2) = us[1][1]
            /\ Tiles(rs, Tail(us), at + 2)
  ELSE /\ rs # <<>>
       /\ CurrentHex(rs[1]) # <<>>
       /\ at + Len(CurrentHex(rs[1])) <= Len(hex_data)
       /\ Slice(hex_data, at, at + Len(CurrentHex(rs[1]))) = CurrentHex(rs[1])
       /\ Tiles(Tail(rs), us, at + Len(CurrentHex(rs[1])))

\* the hex of the buffer before the position without the bytes at the
\* positions of the unknown opcodes
KnownPrefix ==
  LET skipped == {unknown_opcodes[i][2] : i \in 1..Len(unknown_opcodes)}
      kept == [i \in 1..position |-> (2 * ((i - 1) \div 2)) \notin skipped]
      RECURSIVE Pick(_)
      Pick(n) == IF n = 0 THEN <<>>
                 ELSE IF kept[n] THEN Append(Pick(n - 1), hex_data[n])
                 ELSE Pick(n - 1)
  IN  Pick(position)

\* C34: while and after a buffer is decoded the position is even and within
\* the buffer, the records and the skipped unknown bytes tile the buffer up
\* to the position without gap or overlap and in the order of their offsets,
\* and the hex of the records joined is the decoded prefix without the
\* unknown bytes
C34_DecoderPartition ==
  /\ position % 2 = 0
  /\ 0 <= position /\ position <= Len(hex_data)
  /\ Tiles(rows, unknown_opcodes, 0)
  /\ HexUpTo(Len(rows)) = KnownPrefix

\* C34: an unknown byte, a record of two bytes and a second unknown byte have
\* been decoded
C34_Witness ==
  /\ pc = "parse"
  /\ Len(rows) = 1 /\ Len(unknown_opcodes) = 2
  /\ unknown_opcodes[1][2] = 0 /\ unknown_opcodes[2][2] = 6
  /\ position = 8 /\ position = Len(hex_data)

\* C35: whenever no load is running, every entry of the undo stack and of
\* the redo stack names a row the table has
C35_StackEntriesNameRows ==
  (pc = "idle")
    => (/\ \A i \in 1..Len(undo_stack) : undo_stack[i][1] \in RowNumbers
        /\ \A i \in 1..Len(redo_stack) : redo_stack[i][1] \in RowNumbers)

\* C37: after an accepted edit of a freshly decoded document and as many
\* undos (here one of each), every record holds its original value again,
\* the undo stack is empty and nothing counts as unsaved
C37_UndosRestoreOriginals ==
  (AfterAll(<<{"undo"}, Edits, {"decoded"}>>) /\ hist[2].acc /\ pc = "idle")
    => (/\ \A i \in 1..Len(rows) :
             CurrentHex(rows[i]) = StripSpaces(OriginalGet(i - 1))
        /\ undo_stack = <<>>
        /\ ~has_unsaved_changes)

\* C38: a load that fails to read its file returns with the signals of the
\* table unblocked, so that change tracking goes on
C38_FailedLoadUnblocks ==
  (After("load_scd_file") /\ ~hist[1].acc /\ pc = "idle") => ~signals_blocked

\* C39: a change of game that the user cancels at the unsaved-changes prompt
\* leaves the registry, the records, their original values and both stacks
\* as they were
C39_CancelChangesNothing ==
  [][(Did("game") /\ ~hist'[1].acc)
       => UNCHANGED <<current_opcodes, rows, original_hex_values, undo_stack,
                      redo_stack>>]_vars

\* C33: an accepted edit of record i, of any length, changes record i only:
\* every other record keeps its hex, its name, its description and its
\* place, no record keeps another original value, and the decoder does not
\* run
C33_EditTouchesOneRecord ==
  [][(Did("edit") /\ hist'[1].acc)
       => (/\ Len(rows') = Len(rows)
           /\ \A j \in 1..Len(rows) :
                (j # hist'[1].row + 1) => (rows'[j] = rows[j])
           /\ rows'[hist'[1].row + 1].id = rows[hist'[1].row + 1].id
           /\ UNCHANGED <<original_hex_values, pc, hex_data, position,
                          unknown_opcodes>>)]_vars

\* C33: in a decoded document of two records the second was edited to a
\* value shorter than the record was decoded with
C33_Witness ==
  /\ AfterAll(<<{"edit"}, {"decoded"}>>) /\ hist[1].acc
  /\ Len(rows) = 2 /\ hist[1].row = 1
  /\ Len(CurrentHex(rows[2])) < Len(hist[1].old[2])
  /\ CurrentHex(rows[1]) = hist[1].old[1]

\* the name, hex and description of the rows rs that equal those of row r
SameCells(rs, r) ==
  {i \in 1..Len(rs) : <<rs[i].name, rs[i].hex, rs[i].desc>>
                         = <<r.name, r.hex, r.desc>>}

\* the step swaps the rows a and b (numbered from 0) and keeps the others
Swaps(a, b) ==
  /\ rows'[a + 1] = rows[b + 1]
  /\ rows'[b + 1] = rows[a + 1]
  /\ \A i \in 1..Len(rows) : (i \notin {a + 1, b + 1}) => (rows'[i] = rows[i])

\* C40: Move Up on the first row and Move Down on the last change nothing;
\* any other move swaps the selected row with its neighbour; a move keeps
\* the number of rows and how often each (name, hex, description) occurs,
\* pushes nothing onto the undo stack and leaves the redo stack
C40_MoveSwapsNeighbours ==
  [][/\ Did("move_up")
          => (IF hist'[1].row = 0 THEN rows' = rows
              ELSE Swaps(hist'[1].row, hist'[1].row - 1))
     /\ Did("move_down")
          => (IF hist'[1].row = Len(rows) - 1 THEN rows' = rows
              ELSE Swaps(hist'[1].row, hist'[1].row + 1))
     /\ (Did("move_up") \/ Did("move_down"))
          => (/\ Len(rows') = Len(rows)
              /\ \A i \in 1..Len(rows) :
                   Cardinality(SameCells(rows', rows[i]))
                     = Cardinality(SameCells(rows, rows[i]))
              /\ UNCHANGED <<undo_stack, redo_stack>>)]_vars

\* C40: the second of two rows that differ was moved up while the undo stack
\* held entries
C40_Witness ==
  /\ After("move_up") /\ hist[1].acc /\ hist[1].row = 1
  /\ Len(rows) = 2 /\ rows[1].hex # rows[2].hex
  /\ rows[1].id = 2
  /\ undo_stack # <<>>

\* the row a record of row j stands in after the move of the history entry
\* mv, which swapped two rows
RowAfterMove(mv, j) ==
  LET other == IF mv.op = "move_up" THEN mv.row - 1 ELSE mv.row + 1
  IN  IF j = mv.row THEN other
      ELSE IF j = other THEN mv.row ELSE j

\* C36: after an accepted edit, a move and an undo, the record that was
\* edited holds the value it had before the edit, in the row the move left
\* it in, and every other record holds the value it had
C36_UndoFollowsRecord ==
  (AfterAll(<<{"undo"}, Moves, {"edit"}>>) /\ hist[3].acc /\ hist[2].acc
     /\ pc = "idle")
    => (\A j \in 0..(Len(rows) - 1) :
          CurrentHex(rows[RowAfterMove(hist[2], j) + 1]) = hist[3].old[j + 1])

====
